---- MODULE Spec2Model ----
(***************************************************************************)
(* PolybftEventTracker (package polybft): the supervisor loop of Start,    *)
(* syncOnStart, trackBlock, getNewState and processLogs, together with the *)
(* provider, store and subscriber they call.  The TrackerBlockContainer    *)
(* the tracker calls is modelled from its specified contract (section 4.1  *)
(* of the specification).  samBucket and samSet (package sampool) are      *)
(* modelled under a specification of their own, BucketSpec.                *)
(***************************************************************************)
EXTENDS Integers, Sequences, FiniteSets, TLC

(* ------------------------------ bounds -------------------------------- *)

\* highest block number the provider and the poller ever hand out
MaxBlock == 4
\* NumBlockConfirmations is 1 or MaxConfirmations
MaxConfirmations == 2
\* SyncBatchSize is 1 or MaxBatch
MaxBatch == 2
\* MaxBacklogSize is 1 or MaxBacklog
MaxBacklog == 2
\* StartBlockFromConfig ranges over 0..MaxStartBlock
MaxStartBlock == 1
\* number of provider / store calls that may fail in one behaviour
MaxFailures == 1
\* number of distinct signature byte strings of the messages given to add
MaxSignatures == 3

\* uint64 arithmetic, at a reduced width: values are taken modulo UintMod
UintMod == 2 ^ 16

USub(a, b) == (a - b + UintMod) % UintMod
UAdd(a, b) == (a + b) % UintMod

Max(a, b) == IF a >= b THEN a ELSE b

(* ------------------------------ state --------------------------------- *)

VARIABLES
    config,              \* PolybftTrackerConfig: the numeric options
    blocks,              \* blockContainer: cached block numbers, oldest first
    lastProcessed,       \* blockContainer: last processed confirmed block
    locked,              \* blockContainer: write lock held
    storeLastProcessed,  \* Store: value of the last InsertLastProcessedBlock
    storeLogs,           \* Store: logs written with InsertLogs (log -> count)
    delivered,           \* EventSubscriber: logs passed to AddLog (log -> count)
    onceDone,            \* p.once has run
    closed,              \* closeCh is closed
    pc,                  \* position of the RetryForever goroutine
    gns,                 \* locals of the running / last getNewState call
    pass,                \* locals of the running / last processLogs call
    watermarkPass,       \* the processLogs call that wrote storeLastProcessed
    forwardedInVain,     \* log -> passes that forwarded it and then failed
    failures,            \* provider / store failures so far
    startup,             \* syncOnStart: what the function given to p.once did
    gpc,                 \* concurrent callers: position of each goroutine
    glocal,              \* concurrent callers: locals of each goroutine
    onceRuns,            \* concurrent callers: runs of the function given to p.once
    bucket,              \* sampool: the samBucket
    addedSignatures,     \* sampool: <<hash, signature>> of every message given to add
    lastAdd,             \* sampool: the message of the last call, when it was an add
    quorumResult         \* sampool: the last call, when it was getQuorumMessages

vars == <<config, blocks, lastProcessed, locked, storeLastProcessed, storeLogs,
          delivered, onceDone, closed, pc, gns, pass, watermarkPass,
          forwardedInVain, failures, startup, gpc, glocal, onceRuns,
          bucket, addedSignatures, lastAdd, quorumResult>>

\* the state of the sampool bucket, which the tracker leaves alone
bucketVars == <<bucket, addedSignatures, lastAdd, quorumResult>>

\* the state of the goroutines of ConcSpec and of the bucket, which Spec
\* leaves alone
otherVars == <<gpc, glocal, onceRuns, bucketVars>>

(* --------------------------- chain and filter -------------------------- *)

\* config.LogFilter: address -> accepted event ids ("A3" is not a key)
LogFilter == [a \in {"A1", "A2"} |->
                 IF a = "A1" THEN <<"T1">> ELSE <<"T2", "T3", "T2">>]

Log(n, a, t) == [block |-> n, address |-> a, topic |-> t]

\* the logs block n carries on the tracked chain, in order
ChainLogs(n) ==
    CASE n % 3 = 1 -> <<Log(n, "A1", "T1"), Log(n, "A3", "T1")>>
      [] n % 3 = 2 -> <<Log(n, "A2", "T2"), Log(n, "A1", "T2")>>
      [] OTHER     -> <<Log(n, "A2", "T1")>>

AllLogs == UNION {{ChainLogs(n)[k] : k \in 1..Len(ChainLogs(n))} : n \in 0..(MaxBlock + 1)}

RECURSIVE GetLogs(_, _)
\* BlockProvider.GetLogs for the block range [from, to]
GetLogs(from, to) ==
    IF from > to THEN <<>> ELSE ChainLogs(from) \o GetLogs(from + 1, to)

(* ------------------- TrackerBlockContainer (contract) ------------------ *)

\* highest cached block number, or lastProcessed when nothing is cached
LastCachedBlock(blks, lp) == IF blks = <<>> THEN lp ELSE blks[Len(blks)]

\* classify: a block is sequential only when its number is lastCached + 1
IsOutOfSync(blks, lp, n) == n # LastCachedBlock(blks, lp) + 1

\* mutant: append without the test against lastCached
AddBlock_Unguarded(blks, lp, n) == Append(blks, n)

\* append: no-op when the number is not above lastCached
AddBlock(blks, lp, n) ==
    IF n <= LastCachedBlock(blks, lp) THEN blks ELSE Append(blks, n)

\* reset: the cache is emptied, lastProcessed stays
CleanState(blks) == <<>>

\* a cached number n is confirmed when lastCached - n >= confirmations
IsConfirmed(blks, lp, n, c) == LastCachedBlock(blks, lp) - n >= c

RECURSIVE ConfirmedPrefix(_, _, _, _)
ConfirmedPrefix(blks, lp, c, k) ==
    IF k > Len(blks) \/ ~IsConfirmed(blks, lp, blks[k], c)
    THEN <<>>
    ELSE <<blks[k]>> \o ConfirmedPrefix(blks, lp, c, k + 1)

\* confirmedRange: the prefix of the cache whose numbers are all confirmed
GetConfirmedBlocks(blks, lp, c) == ConfirmedPrefix(blks, lp, c, 1)

\* evict: removes [from, to] and sets lastProcessed = to; fails without
\* changing anything when [from, to] is not a prefix of the cache
RemoveBlocks(blks, lp, from, to) ==
    IF /\ blks # <<>>
       /\ blks[1] = from
       /\ \E k \in 1..Len(blks) : blks[k] = to
    THEN LET k == CHOOSE x \in 1..Len(blks) : blks[x] = to
         IN  [ok |-> TRUE, blocks |-> SubSeq(blks, k + 1, Len(blks)), lastProcessed |-> to]
    ELSE [ok |-> FALSE, blocks |-> blks, lastProcessed |-> lp]

(* ------------------------- NewPolybftEventTracker ---------------------- *)

\* definiteLastProcessedBlock of the constructor
DefiniteLastProcessedBlock(storedLastProcessed, startBlockFromConfig) ==
    LET fromConfig == IF startBlockFromConfig > 0 THEN startBlockFromConfig - 1 ELSE 0
    IN  IF storedLastProcessed > fromConfig THEN storedLastProcessed ELSE fromConfig

(* ------------------------------ getNewState ---------------------------- *)

\* mutant: the clamp without the test latest > MaxBacklogSize, so that
\* latest - MaxBacklogSize wraps around
StartBlock_Underflow(lastProcessedBlock, latest, maxBacklogSize) ==
    IF USub(latest, maxBacklogSize) > lastProcessedBlock
    THEN USub(latest, maxBacklogSize)
    ELSE UAdd(lastProcessedBlock, 1)

\* startBlock: lastProcessedBlock + 1, sanitized by MaxBacklogSize
StartBlock(lastProcessedBlock, latest, maxBacklogSize) ==
    IF latest > maxBacklogSize /\ USub(latest, maxBacklogSize) > lastProcessedBlock
    THEN USub(latest, maxBacklogSize)
    ELSE UAdd(lastProcessedBlock, 1)

\* end of the batch that starts at i
BatchEnd(i, latest, syncBatchSize) ==
    IF UAdd(i, syncBatchSize) > latest
    THEN USub(latest, 1)
    ELSE UAdd(i, syncBatchSize)

\* mutant: the latest block is not added
AddLatestBlock_Skipped(blks, lp, latestBlock) == blks

\* line 330: AddBlock(latestBlock) after the batch loop
AddLatestBlock(blks, lp, latestBlock) == AddBlock(blks, lp, latestBlock)

(* ------------------------------ processLogs ---------------------------- *)

\* mutant: toBlock taken from the first confirmed block
ToBlock_First(confirmedBlocks) == confirmedBlocks[1]

FromBlock(confirmedBlocks) == confirmedBlocks[1]
ToBlock(confirmedBlocks) == confirmedBlocks[Len(confirmedBlocks)]

RECURSIVE MatchIds_NoBreak(_, _, _)
\* mutant: the inner loop without its break
MatchIds_NoBreak(logIDs, topic, k) ==
    IF k > Len(logIDs) THEN 0
    ELSE (IF logIDs[k] = topic THEN 1 ELSE 0) + MatchIds_NoBreak(logIDs, topic, k + 1)

RECURSIVE MatchIds(_, _, _)
\* the inner loop over logIDs: the number of times the log is appended,
\* stopping at the first id equal to the log's first topic
MatchIds(logIDs, topic, k) ==
    IF k > Len(logIDs) THEN 0
    ELSE IF logIDs[k] = topic THEN 1
    ELSE MatchIds(logIDs, topic, k + 1)

RECURSIVE Copies(_, _)
Copies(log, n) == IF n = 0 THEN <<>> ELSE <<log>> \o Copies(log, n - 1)

RECURSIVE FilterLogs_AnyAddress(_, _)
\* mutant: the log's first topic is looked up in the lists of every address
FilterLogs_AnyAddress(logs, k) ==
    IF k > Len(logs) THEN <<>>
    ELSE LET log == logs[k]
             n == IF \E a \in DOMAIN LogFilter :
                        MatchIds(LogFilter[a], log.topic, 1) = 1
                  THEN 1 ELSE 0
         IN  Copies(log, n) \o FilterLogs_AnyAddress(logs, k + 1)

RECURSIVE FilterLogs(_, _)
\* the loop over logs: filteredLogs, which is also the order of AddLog calls
FilterLogs(logs, k) ==
    IF k > Len(logs) THEN <<>>
    ELSE LET log == logs[k]
             n == IF log.address \in DOMAIN LogFilter
                  THEN MatchIds(LogFilter[log.address], log.topic, 1)
                  ELSE 0
         IN  Copies(log, n) \o FilterLogs(logs, k + 1)

RECURSIVE CountAll(_, _)
\* counts after every log of the sequence was added once more
CountAll(count, logs) ==
    IF logs = <<>> THEN count
    ELSE CountAll([count EXCEPT ![Head(logs)] = @ + 1], Tail(logs))

(* ------------------------------ sampool -------------------------------- *)

\* types.Hash values of the messages
Hashes == {"h1", "h2"}

\* the signature byte strings
Signatures == 1..MaxSignatures

\* rootchain.SAM
SAMs == [Hash : Hashes, Signature : Signatures]

newSet == [messages |-> <<>>, signatures |-> {}]

\* mutant: the message is appended whatever its signature
samSet_add_NoDedup(s, msg) ==
    [messages |-> Append(s.messages, msg),
     signatures |-> s.signatures \cup {msg.Signature}]

\* samSet.add
samSet_add(s, msg) ==
    IF msg.Signature \in s.signatures
    THEN s
    ELSE [messages |-> Append(s.messages, msg),
          signatures |-> s.signatures \cup {msg.Signature}]

newBucket == [h \in {} |-> newSet]

\* samBucket.add
samBucket_add(b, msg) ==
    LET messages == IF msg.Hash \in DOMAIN b THEN b[msg.Hash] ELSE newSet
    IN  [h \in DOMAIN b \cup {msg.Hash} |->
            IF h = msg.Hash THEN samSet_add(messages, msg) ELSE b[h]]

\* a nil slice
Nil == <<>>

\* quorumFunc: a predicate on the number of messages, as the set of numbers
\* it accepts: the thresholds "at least k" and the tests "exactly k"
QuorumFuncs ==
    {k..MaxSignatures : k \in 0..MaxSignatures} \cup {{k} : k \in 0..MaxSignatures}

\* mutant: the messages of a set are returned without asking quorum
getQuorumMessages_NoQuorum(b, quorum) ==
    IF DOMAIN b = {} THEN {Nil} ELSE {b[h].messages : h \in DOMAIN b}

\* samBucket.getQuorumMessages: the values it can return; the order in which
\* range visits the map is not fixed, so any set that satisfies quorum can be
\* the first one found
getQuorumMessages(b, quorum) ==
    LET hits == {h \in DOMAIN b : Len(b[h].messages) \in quorum}
    IN  IF hits = {} THEN {Nil} ELSE {b[h].messages : h \in hits}

NoMsg == [Hash |-> "none", Signature |-> 0]

NoResult == [called |-> FALSE, quorum |-> {}, messages |-> Nil]

(* ------------------------------ initial state -------------------------- *)

NoCount == [l \in AllLogs |-> 0]

NoGns == [caller |-> "none", latestBlock |-> 0, lastProcessedBlock |-> 0,
          startBlock |-> 0, i |-> 0, j |-> 0, end |-> 0,
          requested |-> <<>>, outcome |-> "none", redelivery |-> FALSE]

NoPre == [blocks |-> <<>>, lastProcessed |-> 0, storeLastProcessed |-> 0,
          storeLogs |-> NoCount, delivered |-> NoCount]

NoPass == [ret |-> "none", fromBlock |-> 0, toBlock |-> 0, filteredLogs |-> <<>>,
           outcome |-> "none", pre |-> NoPre]

NoWatermarkPass == [fromBlock |-> 0, toBlock |-> 0, filteredLogs |-> <<>>]

\* the goroutines running the function Start gives to RetryForever
Goroutines == {"g1", "g2"}

NoLocal == [caller |-> "none", block |-> 0, lastProcessedBlock |-> 0]

\* each option takes its smallest and its largest value
Configs == [NumBlockConfirmations : {1, MaxConfirmations},
            SyncBatchSize : {1, MaxBatch},
            MaxBacklogSize : {1, MaxBacklog}]

\* the largest options of Configs
LargestConfig == [NumBlockConfirmations |-> MaxConfirmations,
                  SyncBatchSize |-> MaxBatch,
                  MaxBacklogSize |-> MaxBacklog]

\* the state NewPolybftEventTracker returns over an empty store
Init ==
    /\ config \in Configs
    /\ blocks = <<>>
    /\ \E s \in 0..MaxStartBlock : lastProcessed = DefiniteLastProcessedBlock(0, s)
    /\ locked = FALSE
    /\ storeLastProcessed = 0
    /\ storeLogs = NoCount
    /\ delivered = NoCount
    /\ onceDone = FALSE
    /\ closed = FALSE
    /\ pc = "retry"
    /\ gns = NoGns
    /\ pass = NoPass
    /\ watermarkPass = NoWatermarkPass
    /\ forwardedInVain = NoCount
    /\ failures = 0
    /\ startup = "pending"
    /\ gpc = [g \in Goroutines |-> "retry"]
    /\ glocal = [g \in Goroutines |-> NoLocal]
    /\ onceRuns = 0
    /\ bucket = newBucket
    /\ addedSignatures = {}
    /\ lastAdd = NoMsg
    /\ quorumResult = NoResult

Snapshot == [blocks |-> blocks, lastProcessed |-> lastProcessed,
             storeLastProcessed |-> storeLastProcessed,
             storeLogs |-> storeLogs, delivered |-> delivered]

\* an external call (provider or store) may fail while failures remain
MayFail == failures < MaxFailures

(* ------------------------------ the supervisor ------------------------- *)

\* the err of syncOnStart (lines 241-258) once the getNewState it called from
\* p.once.Do returns; a getNewState called by trackBlock leaves it alone
OnceResult(caller, err, was) ==
    IF caller = "syncOnStart" THEN (IF err THEN "failed" ELSE "synced") ELSE was

\* mutant: the write lock stays held when the call returns an error
LockAfterReturn_KeptOnError(err) == err

\* defer ReleaseWriteLock (lines 217, 281): the lock is free after trackBlock
\* or getNewState returned, error or not
LockAfterReturn(err) == FALSE

\* mutant: an error ends the loop
AfterReturn_StopOnError(err) == IF err THEN "stopped" ELSE "track"

\* where RetryForever goes when its function returns: Track is entered after
\* a nil return of syncOnStart, the backoff after an error
AfterReturn(err) == IF err THEN "backoff" ELSE "track"

\* Close
Close ==
    /\ ~closed
    /\ pc # "stopped"
    /\ closed' = TRUE
    /\ UNCHANGED <<otherVars, startup, config, blocks, lastProcessed, locked, storeLastProcessed,
                   storeLogs, delivered, onceDone, pc, gns, pass, watermarkPass,
                   forwardedInVain, failures>>

\* RetryForever waiting out the delay after an error, or seeing the
\* cancelled context
Backoff ==
    /\ pc = "backoff"
    /\ pc' = IF closed THEN "stopped" ELSE "retry"
    /\ gns' = NoGns
    /\ pass' = NoPass
    /\ UNCHANGED <<otherVars, startup, config, blocks, lastProcessed, locked, storeLastProcessed,
                   storeLogs, delivered, onceDone, closed, watermarkPass, forwardedInVain, failures>>

\* Track returns the context's error once it is cancelled; Start's function
\* then returns nil and RetryForever ends
TrackCancelled ==
    /\ pc = "track"
    /\ closed
    /\ pc' = "stopped"
    /\ gns' = NoGns
    /\ pass' = NoPass
    /\ UNCHANGED <<otherVars, startup, config, blocks, lastProcessed, locked, storeLastProcessed,
                   storeLogs, delivered, onceDone, closed, watermarkPass, forwardedInVain, failures>>

\* syncOnStart, up to its call of getNewState
syncOnStart ==
    /\ pc = "retry"
    /\ pass' = NoPass
    /\ onceDone' = TRUE
    /\ UNCHANGED <<otherVars, config, blocks, lastProcessed, locked, storeLastProcessed,
                   storeLogs, delivered, closed, watermarkPass, forwardedInVain>>
    /\ IF onceDone
       THEN /\ pc' = "track"
            /\ gns' = NoGns
            /\ UNCHANGED <<failures, startup>>
       ELSE \/ /\ MayFail
               /\ failures' = failures + 1
               /\ pc' = "backoff"
               /\ gns' = NoGns
               /\ startup' = "failed"
            \/ \E latestBlock \in 1..MaxBlock :
                  /\ UNCHANGED failures
                  /\ IF ~IsOutOfSync(blocks, lastProcessed, latestBlock)
                     THEN /\ pc' = "track"
                          /\ gns' = NoGns
                          /\ startup' = "insync"
                     ELSE /\ pc' = "gns_read"
                          /\ gns' = [NoGns EXCEPT !.caller = "syncOnStart",
                                                  !.latestBlock = latestBlock]
                          /\ startup' = "running"

\* mutant: every head above lastCached is taken as the next block
TakesAppendPath_AboveCached(blks, lp, block) == LastCachedBlock(blks, lp) < block

\* line 215: the head is added to the cache by trackBlock itself only when
\* the container does not report it out of sync
TakesAppendPath(blks, lp, block) == ~IsOutOfSync(blks, lp, block)

\* trackBlock called by Track with one of the given heads, up to its call of
\* processLogs or getNewState
trackBlockFrom(heads) ==
    /\ pc = "track"
    /\ ~closed
    /\ \E block \in heads :
          IF TakesAppendPath(blocks, lastProcessed, block)
          THEN /\ ~locked
               /\ locked' = TRUE
               /\ blocks' = IF LastCachedBlock(blocks, lastProcessed) < block
                             THEN AddBlock(blocks, lastProcessed, block)
                             ELSE blocks
               /\ pc' = "pl_start"
               /\ pass' = [NoPass EXCEPT !.ret = "trackBlock"]
               /\ gns' = NoGns
          ELSE /\ pc' = "gns_read"
               /\ gns' = [NoGns EXCEPT
                              !.caller = "trackBlock",
                              !.latestBlock = block,
                              !.redelivery =
                                  (block = LastCachedBlock(blocks, lastProcessed))]
               /\ pass' = NoPass
               /\ UNCHANGED <<blocks, locked>>
    /\ UNCHANGED <<otherVars, startup, config, lastProcessed, storeLastProcessed, storeLogs, delivered,
                   onceDone, closed, watermarkPass, forwardedInVain, failures>>

\* the poller hands trackBlock any head
trackBlock == trackBlockFrom(1..MaxBlock)

\* the poller hands trackBlock a head above every cached block
trackNewBlock ==
    trackBlockFrom({b \in 1..MaxBlock : b > LastCachedBlock(blocks, lastProcessed)})

(* ------------------------------ getNewState ---------------------------- *)

\* lastProcessedBlock := p.blockContainer.LastProcessedBlock()
getNewStateRead ==
    /\ pc = "gns_read"
    /\ gns' = [gns EXCEPT !.lastProcessedBlock = lastProcessed]
    /\ pc' = "gns_lock"
    /\ pass' = NoPass
    /\ UNCHANGED <<otherVars, startup, config, blocks, lastProcessed, locked, storeLastProcessed,
                   storeLogs, delivered, onceDone, closed, watermarkPass, forwardedInVain, failures>>

\* AcquireWriteLock, CleanState, startBlock
getNewStateClean ==
    /\ pc = "gns_lock"
    /\ ~locked
    /\ locked' = TRUE
    /\ blocks' = CleanState(blocks)
    /\ LET startBlock == StartBlock(gns.lastProcessedBlock, gns.latestBlock,
                                    config.MaxBacklogSize)
       IN  gns' = [gns EXCEPT !.startBlock = startBlock, !.i = startBlock]
    /\ pc' = "gns_loop"
    /\ UNCHANGED <<otherVars, startup, config, lastProcessed, storeLastProcessed, storeLogs, delivered,
                   onceDone, closed, pass, watermarkPass, forwardedInVain, failures>>

\* the head of the batch loop: i <= latestBlock.Number, end
getNewStateBatch ==
    /\ pc = "gns_loop"
    /\ IF gns.i <= gns.latestBlock
       THEN /\ gns' = [gns EXCEPT !.end = BatchEnd(gns.i, gns.latestBlock,
                                                    config.SyncBatchSize),
                                  !.j = gns.i]
            /\ pc' = "gns_fetch"
       ELSE /\ gns' = gns
            /\ pc' = "gns_latest"
    /\ pass' = NoPass
    /\ UNCHANGED <<otherVars, startup, config, blocks, lastProcessed, locked, storeLastProcessed,
                   storeLogs, delivered, onceDone, closed, watermarkPass, forwardedInVain, failures>>

\* the inner loop: GetBlockByNumber(j) and AddBlock, then processLogs
getNewStateFetch ==
    /\ pc = "gns_fetch"
    /\ UNCHANGED <<otherVars, config, lastProcessed, storeLastProcessed, storeLogs, delivered,
                   onceDone, closed, watermarkPass, forwardedInVain>>
    /\ IF gns.j < gns.end
       THEN \/ /\ MayFail
               /\ failures' = failures + 1
               /\ gns' = [gns EXCEPT !.requested = Append(@, gns.j),
                                     !.outcome = "err"]
               /\ locked' = LockAfterReturn(TRUE)
               /\ pc' = AfterReturn(TRUE)
               /\ startup' = OnceResult(gns.caller, TRUE, startup)
               /\ UNCHANGED <<blocks, pass>>
            \/ /\ blocks' = AddBlock(blocks, lastProcessed, gns.j)
               /\ gns' = [gns EXCEPT !.requested = Append(@, gns.j),
                                     !.j = UAdd(gns.j, 1)]
               /\ UNCHANGED <<locked, pc, pass, failures, startup>>
       ELSE /\ pc' = "pl_start"
            /\ pass' = [NoPass EXCEPT !.ret = "batch"]
            /\ UNCHANGED <<blocks, locked, gns, failures, startup>>

\* AddBlock(latestBlock), then the last processLogs
getNewStateLatest ==
    /\ pc = "gns_latest"
    /\ blocks' = AddLatestBlock(blocks, lastProcessed, gns.latestBlock)
    /\ pc' = "pl_start"
    /\ pass' = [NoPass EXCEPT !.ret = "final"]
    /\ UNCHANGED <<otherVars, startup, config, lastProcessed, locked, storeLastProcessed, storeLogs,
                   delivered, onceDone, closed, gns, watermarkPass, forwardedInVain, failures>>

(* ------------------------------ processLogs ---------------------------- *)

\* processLogs returns to its caller: trackBlock returns its result to Track,
\* getNewState goes on with the next batch or returns it to its own caller
processLogsReturn(err) ==
    CASE pass.ret = "trackBlock" ->
            /\ pc' = AfterReturn(err)
            /\ locked' = LockAfterReturn(err)
            /\ gns' = gns
            /\ startup' = startup
      [] pass.ret = "batch" /\ ~err ->
            /\ pc' = "gns_loop"
            /\ locked' = locked
            /\ gns' = [gns EXCEPT !.i = UAdd(gns.i, config.SyncBatchSize)]
            /\ startup' = startup
      [] OTHER ->
            /\ pc' = AfterReturn(err)
            /\ locked' = LockAfterReturn(err)
            /\ gns' = [gns EXCEPT !.outcome = IF err THEN "err" ELSE "ok"]
            /\ startup' = OnceResult(gns.caller, err, startup)

\* mutant: the logs are filtered and forwarded before the error of GetLogs
\* is looked at
Forwarded_IgnoreError(getLogsFailed, logs) == FilterLogs(logs, 1)

\* lines 368-393: the logs passed to AddLog and kept as filteredLogs; none
\* when GetLogs returned an error
Forwarded(getLogsFailed, logs) ==
    IF getLogsFailed THEN <<>> ELSE FilterLogs(logs, 1)

\* GetConfirmedBlocks, GetLogs, the filter loop with AddLog
processLogsGetLogs ==
    /\ pc = "pl_start"
    /\ UNCHANGED <<otherVars, config, blocks, lastProcessed, storeLastProcessed, storeLogs,
                   onceDone, closed, watermarkPass, forwardedInVain>>
    /\ LET confirmedBlocks == GetConfirmedBlocks(blocks, lastProcessed,
                                                 config.NumBlockConfirmations)
       IN  IF confirmedBlocks = <<>>
           THEN /\ pass' = [pass EXCEPT !.outcome = "nothing", !.pre = Snapshot]
                /\ processLogsReturn(FALSE)
                /\ UNCHANGED <<delivered, failures>>
           ELSE LET fromBlock == FromBlock(confirmedBlocks)
                    toBlock == ToBlock(confirmedBlocks)
                    started == [pass EXCEPT !.fromBlock = fromBlock,
                                            !.toBlock = toBlock,
                                            !.pre = Snapshot]
                IN  \E getLogsFailed \in {f \in BOOLEAN : f => MayFail} :
                      LET filteredLogs == Forwarded(getLogsFailed,
                                                    GetLogs(fromBlock, toBlock))
                      IN  /\ delivered' = CountAll(delivered, filteredLogs)
                          /\ failures' = failures + (IF getLogsFailed THEN 1 ELSE 0)
                          /\ IF getLogsFailed
                             THEN /\ pass' = [started EXCEPT !.outcome = "errGetLogs"]
                                  /\ processLogsReturn(TRUE)
                             ELSE /\ pass' = [started EXCEPT
                                                 !.filteredLogs = filteredLogs,
                                                 !.outcome = "running"]
                                  /\ pc' = "pl_watermark"
                                  /\ UNCHANGED <<locked, gns, startup>>

\* Store.InsertLastProcessedBlock(toBlock)
processLogsInsertLastProcessedBlock ==
    /\ pc = "pl_watermark"
    /\ UNCHANGED <<otherVars, config, blocks, lastProcessed, storeLogs, delivered, onceDone,
                   closed>>
    /\ \/ /\ MayFail
          /\ failures' = failures + 1
          /\ pass' = [pass EXCEPT !.outcome = "errInsertLastProcessedBlock"]
          /\ forwardedInVain' = CountAll(forwardedInVain, pass.filteredLogs)
          /\ processLogsReturn(TRUE)
          /\ UNCHANGED <<storeLastProcessed, watermarkPass>>
       \/ /\ storeLastProcessed' = pass.toBlock
          /\ watermarkPass' = [fromBlock |-> pass.fromBlock, toBlock |-> pass.toBlock,
                               filteredLogs |-> pass.filteredLogs]
          /\ pc' = "pl_logs"
          /\ UNCHANGED <<locked, gns, pass, forwardedInVain, failures, startup>>

\* mutant: the error of InsertLogs does not stop the eviction
RemoveAfterInsertLogs_IgnoreError(insertLogsFailed, blks, lp, from, to) ==
    RemoveBlocks(blks, lp, from, to)

\* lines 404-415: RemoveBlocks is reached only when InsertLogs returned nil
RemoveAfterInsertLogs(insertLogsFailed, blks, lp, from, to) ==
    IF insertLogsFailed
    THEN [ok |-> FALSE, blocks |-> blks, lastProcessed |-> lp]
    ELSE RemoveBlocks(blks, lp, from, to)

\* Store.InsertLogs(filteredLogs), then RemoveBlocks(fromBlock, toBlock)
processLogsInsertLogs ==
    /\ pc = "pl_logs"
    /\ UNCHANGED <<otherVars, config, storeLastProcessed, delivered, onceDone, closed,
                   watermarkPass>>
    /\ \E insertLogsFailed \in {f \in BOOLEAN : f => MayFail} :
          LET removed == RemoveAfterInsertLogs(insertLogsFailed, blocks, lastProcessed,
                                               pass.fromBlock, pass.toBlock)
          IN  /\ failures' = failures + (IF insertLogsFailed THEN 1 ELSE 0)
              /\ storeLogs' = IF insertLogsFailed THEN storeLogs
                               ELSE CountAll(storeLogs, pass.filteredLogs)
              /\ forwardedInVain' = IF insertLogsFailed
                                     THEN CountAll(forwardedInVain, pass.filteredLogs)
                                     ELSE forwardedInVain
              /\ blocks' = removed.blocks
              /\ lastProcessed' = removed.lastProcessed
              /\ pass' = [pass EXCEPT !.outcome =
                              IF insertLogsFailed THEN "errInsertLogs"
                              ELSE IF removed.ok THEN "ok" ELSE "errRemoveBlocks"]
              /\ processLogsReturn(~removed.ok)

(* ------------------------------ specification -------------------------- *)

Next ==
    \/ Close
    \/ Backoff
    \/ TrackCancelled
    \/ syncOnStart
    \/ trackBlock
    \/ getNewStateRead
    \/ getNewStateClean
    \/ getNewStateBatch
    \/ getNewStateFetch
    \/ getNewStateLatest
    \/ processLogsGetLogs
    \/ processLogsInsertLastProcessedBlock
    \/ processLogsInsertLogs

Spec == Init /\ [][Next]_vars

\* a step of the goroutine Start launches: every step but Close
Progress ==
    \/ Backoff
    \/ TrackCancelled
    \/ syncOnStart
    \/ trackBlock
    \/ getNewStateRead
    \/ getNewStateClean
    \/ getNewStateBatch
    \/ getNewStateFetch
    \/ getNewStateLatest
    \/ processLogsGetLogs
    \/ processLogsInsertLastProcessedBlock
    \/ processLogsInsertLogs

FairInit ==
    /\ Init
    /\ config = LargestConfig

\* the goroutine keeps running and the calls it makes return
FairSpec == FairInit /\ [][Next]_vars /\ WF_vars(Progress)

\* the tracker is never closed and the poller hands it the new heads of a
\* chain that grows up to block MaxBlock
GrowthNext ==
    \/ Backoff
    \/ syncOnStart
    \/ trackNewBlock
    \/ getNewStateRead
    \/ getNewStateClean
    \/ getNewStateBatch
    \/ getNewStateFetch
    \/ getNewStateLatest
    \/ processLogsGetLogs
    \/ processLogsInsertLastProcessedBlock
    \/ processLogsInsertLogs

\* the trackers of Init with the largest batch size
GrowthInit ==
    /\ Init
    /\ config.SyncBatchSize = MaxBatch

\* the goroutine keeps running, the calls it makes return, and the poller
\* keeps handing over new heads while there are any
GrowthSpec == GrowthInit /\ [][GrowthNext]_vars /\ WF_vars(GrowthNext)

TypeOK ==
    /\ config \in Configs
    /\ pc \in {"retry", "backoff", "track", "stopped", "gns_read", "gns_lock",
                "gns_loop", "gns_fetch", "gns_latest", "pl_start", "pl_watermark",
                "pl_logs"}
    /\ lastProcessed \in 0..MaxBlock
    /\ \A k \in 1..Len(blocks) : blocks[k] \in 1..MaxBlock
    /\ failures \in 0..MaxFailures
    /\ startup \in {"pending", "running", "failed", "insync", "synced"}

(* ------------------------ concurrent callers --------------------------- *)

\* The same tracker with the function of Start (lines 183-201) running in
\* two goroutines at once.  A sequence of calls made while the write lock is
\* held is one step: the container's readers and writers wait for the lock.

\* mutant: the function is run by every caller
RunsOnce_NoGuard(done) == TRUE

\* p.once.Do (line 242): the function is run by the first caller only
RunsOnce(done) == ~done

\* a goroutine is inside the function given to p.once
OnceRunning ==
    \E g \in Goroutines :
       /\ glocal[g].caller = "syncOnStart"
       /\ gpc[g] \in {"gns_read", "gns_lock", "gns_run"}

\* the container and the store as processLogs and getNewState change them
Window == [blocks |-> blocks, lastProcessed |-> lastProcessed,
           storeLastProcessed |-> storeLastProcessed,
           storeLogs |-> storeLogs, delivered |-> delivered]

\* processLogs with every call succeeding
PassOK(w, confirmations) ==
    LET confirmedBlocks == GetConfirmedBlocks(w.blocks, w.lastProcessed, confirmations)
    IN  IF confirmedBlocks = <<>>
        THEN w
        ELSE LET fromBlock == FromBlock(confirmedBlocks)
                 toBlock == ToBlock(confirmedBlocks)
                 filteredLogs == Forwarded(FALSE, GetLogs(fromBlock, toBlock))
                 removed == RemoveAfterInsertLogs(FALSE, w.blocks, w.lastProcessed,
                                                  fromBlock, toBlock)
             IN  [blocks |-> removed.blocks,
                  lastProcessed |-> removed.lastProcessed,
                  storeLastProcessed |-> toBlock,
                  storeLogs |-> CountAll(w.storeLogs, filteredLogs),
                  delivered |-> CountAll(w.delivered, filteredLogs)]

\* the inner loop of getNewState (lines 305-313) with every call succeeding
RECURSIVE FetchBatch(_, _, _, _)
FetchBatch(blks, lp, j, end) ==
    IF j < end THEN FetchBatch(AddBlock(blks, lp, j), lp, UAdd(j, 1), end) ELSE blks

\* the batch loop of getNewState from i on, AddBlock(latestBlock) and the
\* last processLogs (lines 295-333), with every call succeeding
RECURSIVE ResyncFrom(_, _, _, _)
ResyncFrom(w, i, latestBlock, cfg) ==
    IF i <= latestBlock
    THEN LET end == BatchEnd(i, latestBlock, cfg.SyncBatchSize)
             fetched == [w EXCEPT !.blocks = FetchBatch(w.blocks, w.lastProcessed, i, end)]
         IN  ResyncFrom(PassOK(fetched, cfg.NumBlockConfirmations),
                        UAdd(i, cfg.SyncBatchSize), latestBlock, cfg)
    ELSE PassOK([w EXCEPT !.blocks = AddLatestBlock(w.blocks, w.lastProcessed,
                                                    latestBlock)],
                cfg.NumBlockConfirmations)

\* the tracker of Init with the largest options
ConcInit ==
    /\ Init
    /\ config = LargestConfig

\* what no goroutine of ConcSpec changes
soloVars == <<config, closed, pc, gns, pass, watermarkPass, forwardedInVain, startup,
              bucketVars>>

\* RetryForever waiting out the delay after an error
BackoffConc(g) ==
    /\ gpc[g] = "backoff"
    /\ gpc' = [gpc EXCEPT ![g] = "retry"]
    /\ glocal' = [glocal EXCEPT ![g] = NoLocal]
    /\ UNCHANGED <<soloVars, blocks, lastProcessed, locked, storeLastProcessed,
                   storeLogs, delivered, onceDone, failures, onceRuns>>

\* syncOnStart, up to its call of getNewState; a caller that finds the
\* function of p.once running waits for it
syncOnStartConc(g) ==
    /\ gpc[g] = "retry"
    /\ UNCHANGED <<soloVars, blocks, lastProcessed, locked, storeLastProcessed,
                   storeLogs, delivered>>
    /\ IF RunsOnce(onceDone)
       THEN /\ onceDone' = TRUE
            /\ onceRuns' = onceRuns + 1
            /\ \/ /\ MayFail
                  /\ failures' = failures + 1
                  /\ gpc' = [gpc EXCEPT ![g] = "backoff"]
                  /\ glocal' = [glocal EXCEPT ![g] = NoLocal]
               \/ \E latestBlock \in 1..MaxBlock :
                     /\ ~locked
                     /\ UNCHANGED failures
                     /\ IF ~IsOutOfSync(blocks, lastProcessed, latestBlock)
                        THEN /\ gpc' = [gpc EXCEPT ![g] = "track"]
                             /\ glocal' = [glocal EXCEPT ![g] = NoLocal]
                        ELSE /\ gpc' = [gpc EXCEPT ![g] = "gns_read"]
                             /\ glocal' = [glocal EXCEPT ![g] =
                                              [NoLocal EXCEPT !.caller = "syncOnStart",
                                                              !.block = latestBlock]]
       ELSE /\ ~OnceRunning
            /\ gpc' = [gpc EXCEPT ![g] = "track"]
            /\ glocal' = [glocal EXCEPT ![g] = NoLocal]
            /\ UNCHANGED <<onceDone, onceRuns, failures>>

\* trackBlock: IsOutOfSync (line 215), before the write lock is asked for
trackBlockConc(g) ==
    /\ gpc[g] = "track"
    /\ ~locked
    /\ \E block \in 1..MaxBlock :
          /\ gpc' = [gpc EXCEPT ![g] = IF TakesAppendPath(blocks, lastProcessed, block)
                                        THEN "tb_lock" ELSE "gns_read"]
          /\ glocal' = [glocal EXCEPT ![g] = [NoLocal EXCEPT !.caller = "trackBlock",
                                                             !.block = block]]
    /\ UNCHANGED <<soloVars, blocks, lastProcessed, locked, storeLastProcessed,
                   storeLogs, delivered, onceDone, failures, onceRuns>>

\* trackBlock: AcquireWriteLock and AddBlock (lines 216-223)
trackBlockLockConc(g) ==
    /\ gpc[g] = "tb_lock"
    /\ ~locked
    /\ locked' = TRUE
    /\ blocks' = IF LastCachedBlock(blocks, lastProcessed) < glocal[g].block
                 THEN AddBlock(blocks, lastProcessed, glocal[g].block)
                 ELSE blocks
    /\ gpc' = [gpc EXCEPT ![g] = "tb_pass"]
    /\ UNCHANGED <<soloVars, lastProcessed, storeLastProcessed, storeLogs, delivered,
                   onceDone, failures, onceRuns, glocal>>

\* trackBlock: processLogs and the release of the lock (lines 217, 226);
\* GetLogs may fail, which leaves the window as it is
processLogsConc(g) ==
    /\ gpc[g] = "tb_pass"
    /\ locked' = FALSE
    /\ UNCHANGED <<soloVars, onceDone, onceRuns, glocal>>
    /\ \/ /\ MayFail
          /\ GetConfirmedBlocks(blocks, lastProcessed,
                                config.NumBlockConfirmations) # <<>>
          /\ failures' = failures + 1
          /\ gpc' = [gpc EXCEPT ![g] = "backoff"]
          /\ UNCHANGED <<blocks, lastProcessed, storeLastProcessed, storeLogs,
                         delivered>>
       \/ LET w == PassOK(Window, config.NumBlockConfirmations)
          IN  /\ blocks' = w.blocks
              /\ lastProcessed' = w.lastProcessed
              /\ storeLastProcessed' = w.storeLastProcessed
              /\ storeLogs' = w.storeLogs
              /\ delivered' = w.delivered
              /\ gpc' = [gpc EXCEPT ![g] = "track"]
              /\ UNCHANGED failures

\* getNewState: LastProcessedBlock() (line 275), before the write lock is
\* asked for
getNewStateReadConc(g) ==
    /\ gpc[g] = "gns_read"
    /\ ~locked
    /\ glocal' = [glocal EXCEPT ![g].lastProcessedBlock = lastProcessed]
    /\ gpc' = [gpc EXCEPT ![g] = "gns_lock"]
    /\ UNCHANGED <<soloVars, blocks, lastProcessed, locked, storeLastProcessed,
                   storeLogs, delivered, onceDone, failures, onceRuns>>

\* getNewState: AcquireWriteLock and CleanState (lines 280-284)
getNewStateCleanConc(g) ==
    /\ gpc[g] = "gns_lock"
    /\ ~locked
    /\ locked' = TRUE
    /\ blocks' = CleanState(blocks)
    /\ gpc' = [gpc EXCEPT ![g] = "gns_run"]
    /\ UNCHANGED <<soloVars, lastProcessed, storeLastProcessed, storeLogs, delivered,
                   onceDone, failures, onceRuns, glocal>>

\* getNewState: from startBlock to the release of the lock (lines 286-346);
\* the first GetBlockByNumber may fail, which leaves the window reset
getNewStateRunConc(g) ==
    /\ gpc[g] = "gns_run"
    /\ locked' = FALSE
    /\ UNCHANGED <<soloVars, onceDone, onceRuns, glocal>>
    /\ LET latestBlock == glocal[g].block
           startBlock == StartBlock(glocal[g].lastProcessedBlock, latestBlock,
                                    config.MaxBacklogSize)
       IN  \/ /\ MayFail
              /\ startBlock < BatchEnd(startBlock, latestBlock, config.SyncBatchSize)
              /\ startBlock <= latestBlock
              /\ failures' = failures + 1
              /\ gpc' = [gpc EXCEPT ![g] = "backoff"]
              /\ UNCHANGED <<blocks, lastProcessed, storeLastProcessed, storeLogs,
                             delivered>>
           \/ LET w == ResyncFrom(Window, startBlock, latestBlock, config)
              IN  /\ blocks' = w.blocks
                  /\ lastProcessed' = w.lastProcessed
                  /\ storeLastProcessed' = w.storeLastProcessed
                  /\ storeLogs' = w.storeLogs
                  /\ delivered' = w.delivered
                  /\ gpc' = [gpc EXCEPT ![g] = "track"]
                  /\ UNCHANGED failures

ConcNext ==
    \E g \in Goroutines :
       \/ BackoffConc(g)
       \/ syncOnStartConc(g)
       \/ trackBlockConc(g)
       \/ trackBlockLockConc(g)
       \/ processLogsConc(g)
       \/ getNewStateReadConc(g)
       \/ getNewStateCleanConc(g)
       \/ getNewStateRunConc(g)

ConcSpec == ConcInit /\ [][ConcNext]_vars

(* ------------------------------ sampool calls -------------------------- *)

BucketInit ==
    /\ Init
    /\ config = LargestConfig

\* what the calls on the bucket leave alone
trackerVars == <<config, blocks, lastProcessed, locked, storeLastProcessed, storeLogs,
                 delivered, onceDone, closed, pc, gns, pass, watermarkPass,
                 forwardedInVain, failures, startup, gpc, glocal, onceRuns>>

\* a call of samBucket.add
Add ==
    \E msg \in SAMs :
       /\ bucket' = samBucket_add(bucket, msg)
       /\ addedSignatures' = addedSignatures \cup {<<msg.Hash, msg.Signature>>}
       /\ lastAdd' = msg
       /\ quorumResult' = NoResult
       /\ UNCHANGED trackerVars

\* a call of samBucket.getQuorumMessages
GetQuorumMessages ==
    \E quorum \in QuorumFuncs :
       \E messages \in getQuorumMessages(bucket, quorum) :
          /\ quorumResult' = [called |-> TRUE, quorum |-> quorum, messages |-> messages]
          /\ lastAdd' = NoMsg
          /\ UNCHANGED <<trackerVars, bucket, addedSignatures>>

BucketNext == Add \/ GetQuorumMessages

BucketSpec == BucketInit /\ [][BucketNext]_vars

(* ------------------------------ properties ----------------------------- *)

\* no operation of the tracker is in progress
Quiescent == pc \in {"retry", "backoff", "track", "stopped"}

Contiguous(blks) == \A k \in 1..(Len(blks) - 1) : blks[k + 1] = blks[k] + 1

RECURSIVE Interval(_, _)
\* the sequence <<a, a + 1, ..., b>>, empty when a > b
Interval(a, b) == IF a > b THEN <<>> ELSE <<a>> \o Interval(a + 1, b)

Range(seq) == {seq[k] : k \in 1..Len(seq)}

\* C1: after any sequence of heads, startup catch-up and completed resyncs
\* (no call has failed, no operation is in progress), the cached block
\* numbers are empty or a contiguous range that starts at lastProcessed + 1.
C1_NoGap ==
    (Quiescent /\ failures = 0) =>
        (blocks = <<>> \/ (blocks[1] = lastProcessed + 1 /\ Contiguous(blocks)))

\* C2: lastProcessed never decreases, and it never exceeds the last cached
\* block number.
C2_Monotonic ==
    /\ [](lastProcessed <= LastCachedBlock(blocks, lastProcessed))
    /\ [](\A k \in 1..Len(blocks) : lastProcessed < blocks[k])
    /\ [][lastProcessed' >= lastProcessed]_vars

\* C2 witness: lastProcessed has advanced twice, blocks are cached above it
\* and a provider or store call has failed on the way.
C2_Witness ==
    /\ lastProcessed >= 2
    /\ blocks # <<>>
    /\ failures > 0
    /\ storeLastProcessed > lastProcessed

\* C3: every value written with InsertLastProcessedBlock is at least the
\* value written before it.
C3_WatermarkMonotonic == [][storeLastProcessed' >= storeLastProcessed]_vars

\* C4: a getNewState call that returns nil has requested exactly the numbers
\* startBlock .. latestBlock.Number - 1 from the provider, each once and in
\* ascending order.
C4_FetchCoverage ==
    gns.outcome = "ok" =>
        gns.requested = Interval(gns.startBlock, gns.latestBlock - 1)

\* the last processLogs call computed a range [fromBlock, toBlock]
PassHasRange ==
    pass.outcome \in {"running", "errGetLogs", "errInsertLastProcessedBlock",
                      "errInsertLogs", "errRemoveBlocks", "ok"}

PassFailed ==
    pass.outcome \in {"errGetLogs", "errInsertLastProcessedBlock", "errInsertLogs"}

\* C5: the range [fromBlock, toBlock] of a pass is exactly the cached numbers n
\* with lastCached - n >= NumBlockConfirmations (a prefix of the cache; no
\* pass range when the oldest cached block is unconfirmed); only logs of
\* that range are forwarded or stored; after a successful pass
\* lastProcessed = toBlock and the cache is the unconfirmed remainder.
\* Watermark 100, 5 confirmations, cache 101..108: range [101, 103], then
\* lastProcessed = 103 and cache 104..108.
C5_OnlyConfirmed ==
    LET b == pass.pre.blocks
        L == LastCachedBlock(b, pass.pre.lastProcessed)
        c == config.NumBlockConfirmations
        example == GetConfirmedBlocks(Interval(101, 108), 100, 5)
    IN  /\ PassHasRange =>
              /\ b # <<>>
              /\ pass.fromBlock = b[1]
              /\ pass.toBlock \in Range(b)
              /\ \A k \in 1..Len(b) : (b[k] <= pass.toBlock) <=> (L - b[k] >= c)
              /\ \A n \in pass.fromBlock..pass.toBlock : L - n >= c
              /\ \A l \in AllLogs :
                    (\/ delivered[l] # pass.pre.delivered[l]
                     \/ storeLogs[l] # pass.pre.storeLogs[l]
                     \/ l \in Range(pass.filteredLogs))
                    => l.block \in pass.fromBlock..pass.toBlock
        /\ pass.outcome = "nothing" =>
              /\ b = <<>> \/ L - b[1] < c
              /\ Snapshot = pass.pre
        /\ pass.outcome = "ok" =>
              /\ lastProcessed = pass.toBlock
              /\ blocks = SelectSeq(b, LAMBDA n : n > pass.toBlock)
              /\ \A k \in 1..Len(blocks) : L - blocks[k] < c
        /\ example = <<101, 102, 103>>
        /\ RemoveBlocks(Interval(101, 108), 100, 101, 103)
              = [ok |-> TRUE, blocks |-> Interval(104, 108), lastProcessed |-> 103]

\* C5 witness: a successful pass over a range of more than one block that
\* left an unconfirmed remainder in the cache.
C5_Witness ==
    /\ pass.outcome = "ok"
    /\ pass.toBlock > pass.fromBlock
    /\ blocks # <<>>
    /\ pass.filteredLogs # <<>>

\* C6: the filtered logs of the pass that wrote the durable watermark have
\* been written with InsertLogs.
C6_WatermarkCoversLogs ==
    \A l \in Range(watermarkPass.filteredLogs) : storeLogs[l] > 0

\* C7 (as claimed): a matching log is passed to AddLog at most once.
C7_AtMostOnce == \A l \in AllLogs : delivered[l] <= 1

\* C7 (amended): a matching log is passed to AddLog at most once per pass, and
\* again only after a pass that forwarded it failed on a store write: the
\* number of AddLog calls for a log is at most one more than the number of
\* such failed passes, and no log of a block <= lastProcessed is forwarded.
C7_AtMostOncePerStoredPass ==
    /\ [](\A l \in AllLogs : delivered[l] <= 1 + forwardedInVain[l])
    /\ [][\A l \in AllLogs :
            delivered'[l] # delivered[l] =>
                (delivered'[l] = delivered[l] + 1 /\ l.block > lastProcessed)]_vars

\* C7 witness: a log forwarded twice and stored once, after a pass that
\* forwarded it failed on a store write.
C7_Witness ==
    \E l \in AllLogs :
        delivered[l] = 2 /\ forwardedInVain[l] = 1 /\ storeLogs[l] = 1

\* C8: a pass that fails on GetLogs, InsertLastProcessedBlock or InsertLogs
\* returns the error and leaves the cache, lastCached and lastProcessed as
\* they were before the pass; the range is evicted and lastProcessed
\* advanced only by a pass in which all three calls succeeded.
C8_EvictAfterWrites ==
    /\ (PassFailed \/ pass.outcome = "running") =>
          /\ blocks = pass.pre.blocks
          /\ lastProcessed = pass.pre.lastProcessed
    /\ PassFailed => pc = "backoff"
    /\ (PassHasRange /\ (blocks # pass.pre.blocks
                          \/ lastProcessed # pass.pre.lastProcessed)) =>
          /\ pass.outcome = "ok"
          /\ delivered = CountAll(pass.pre.delivered, pass.filteredLogs)
          /\ storeLastProcessed = pass.toBlock
          /\ storeLogs = CountAll(pass.pre.storeLogs, pass.filteredLogs)
          /\ lastProcessed = pass.toBlock
          /\ \A k \in 1..Len(blocks) : blocks[k] > pass.toBlock

\* C8 witness: InsertLogs failed after the watermark was written; the range
\* is still cached and lastProcessed is behind the written watermark.
C8_Witness ==
    /\ pass.outcome = "errInsertLogs"
    /\ storeLastProcessed = pass.toBlock
    /\ lastProcessed < pass.fromBlock
    /\ pass.fromBlock \in Range(blocks)
    /\ pass.filteredLogs # <<>>

\* C9: a pass whose GetLogs call fails changes nothing: watermark, stored
\* logs, delivered logs, cache and lastProcessed are as before the pass.
C9_GetLogsFailureNoMutation ==
    pass.outcome = "errGetLogs" => (Snapshot = pass.pre /\ pc = "backoff")

\* C9 witness: GetLogs failed for a range that holds a matching log.
C9_Witness ==
    /\ pass.outcome = "errGetLogs"
    /\ FilterLogs(GetLogs(pass.fromBlock, pass.toBlock), 1) # <<>>
    /\ pass.fromBlock \in Range(blocks)

\* getNewState has computed startBlock
StartBlockKnown == gns.caller # "none" /\ pc \notin {"gns_read", "gns_lock"}

\* C10: startBlock = max(lastProcessed + 1, latest - MaxBacklogSize), and a
\* resync requests at most MaxBacklogSize blocks, none below startBlock or
\* at or above latest; lastProcessed 5, latest 10050, backlog 10000 gives 50.
C10_BacklogClamp ==
    /\ StartBlockKnown =>
          /\ gns.startBlock = Max(gns.lastProcessedBlock + 1,
                                  gns.latestBlock - config.MaxBacklogSize)
          /\ Len(gns.requested) <= config.MaxBacklogSize
          /\ \A k \in 1..Len(gns.requested) :
                gns.requested[k] \in gns.startBlock..(gns.latestBlock - 1)
    /\ StartBlock(5, 10050, 10000) = 50

\* C10 witness: a completed resync whose start was clamped above
\* lastProcessed + 1 and that requested blocks.
C10_Witness ==
    /\ gns.outcome = "ok"
    /\ gns.startBlock = gns.latestBlock - config.MaxBacklogSize
    /\ gns.startBlock > gns.lastProcessedBlock + 1
    /\ gns.requested # <<>>

\* C11: the poller (Track) is running only when the startup catch-up finished
\* successfully or found the window already in sync, also in an execution
\* whose first catch-up failed and whose loop was retried
C11_PollAfterCatchUp == pc = "track" => startup \in {"insync", "synced"}

\* C12: under concurrent entry into syncOnStart and across the retries of the
\* supervisor, the function given to p.once (fetch the latest block, classify,
\* resync) runs exactly once: never twice, and it has run as soon as one
\* goroutine is past its first call of syncOnStart
C12_RunOnce ==
    /\ onceRuns <= 1
    /\ onceDone <=> onceRuns = 1
    /\ \A g \in Goroutines : gpc[g] # "retry" => onceRuns = 1

\* both goroutines have gone through syncOnStart, one of them after a retry
C12_Witness ==
    /\ \A g \in Goroutines : gpc[g] = "track"
    /\ failures >= 1
    /\ onceRuns = 1

\* C13: an error that is not a cancellation never stops the supervisor, which
\* calls the function again after the backoff; once Close has cancelled the
\* context the supervisor reaches Stopped, and from Stopped on nothing is
\* started any more
C13_RetryOrStop ==
    /\ [][pc' = "stopped" => closed]_vars
    /\ (pc = "backoff" /\ ~closed) ~> (pc = "retry" \/ closed)
    /\ closed ~> pc = "stopped"
    /\ [][pc # "stopped"]_vars

\* the supervisor has stopped after a call failed and was retried
C13_Witness ==
    /\ pc = "stopped"
    /\ failures >= 1
    /\ startup = "synced"

\* C14: between the read a call acts on (the lastProcessed getNewState reads,
\* the classification trackBlock makes) and the call's own change of the
\* window, no other goroutine changes lastProcessed or lastCached
C14_SingleCriticalSection ==
    \A g \in Goroutines :
       /\ gpc[g] = "gns_lock" => glocal[g].lastProcessedBlock = lastProcessed
       /\ gpc[g] = "tb_lock" => ~IsOutOfSync(blocks, lastProcessed, glocal[g].block)

\* the log is accepted by the filter table
Accepted(l) ==
    /\ l.address \in DOMAIN LogFilter
    /\ l.topic \in Range(LogFilter[l.address])

Occurrences(seq, x) == Cardinality({k \in 1..Len(seq) : seq[k] = x})

\* C15: in a pass whose GetLogs succeeded, a log is passed to AddLog and kept
\* in filteredLogs once if it lies in the range of the pass, its address is
\* a key of LogFilter and its first topic is in that address's list, and not
\* at all otherwise (unlisted address, or a topic listed for another address
\* only); a topic listed twice gives one copy; a successful pass writes
\* exactly these logs to the store
C15_FilterExactness ==
    (PassHasRange /\ pass.outcome # "errGetLogs") =>
        \A l \in AllLogs :
           LET expected == IF /\ l.block \in pass.fromBlock..pass.toBlock
                              /\ Accepted(l)
                           THEN 1 ELSE 0
           IN  /\ Occurrences(pass.filteredLogs, l) = expected
               /\ delivered[l] = pass.pre.delivered[l] + expected
               /\ pass.outcome = "ok" =>
                      storeLogs[l] = pass.pre.storeLogs[l] + expected

\* a successful pass over a range holding a log of an unlisted address, a log
\* whose topic is listed for another address only, and a log whose topic is
\* listed twice
C15_Witness ==
    /\ pass.outcome = "ok"
    /\ \E l \in AllLogs :
          /\ l.block \in pass.fromBlock..pass.toBlock
          /\ l.address \notin DOMAIN LogFilter
          /\ \E a \in DOMAIN LogFilter : l.topic \in Range(LogFilter[a])
    /\ \E l \in AllLogs :
          /\ l.block \in pass.fromBlock..pass.toBlock
          /\ l.address \in DOMAIN LogFilter
          /\ ~Accepted(l)
    /\ \E l \in AllLogs :
          /\ l.block \in pass.fromBlock..pass.toBlock
          /\ Accepted(l)
          /\ Occurrences(LogFilter[l.address], l.topic) > 1
          /\ storeLogs[l] = 1

\* C16: a head delivered to trackBlock is appended by trackBlock itself only
\* when its number is lastCached + 1; a head at or below lastCached, or above
\* lastCached + 1, is handed to getNewState and the cache is left as it is
C16_ReorgDetection ==
    [][pc = "track" /\ pc' \in {"pl_start", "gns_read"} =>
          LET lastCached == LastCachedBlock(blocks, lastProcessed)
          IN  /\ pc' = "pl_start" => blocks' = Append(blocks, lastCached + 1)
              /\ pc' = "gns_read" =>
                     /\ gns'.caller = "trackBlock"
                     /\ gns'.latestBlock # lastCached + 1
                     /\ blocks' = blocks]_vars

\* a head at or below lastCached, over a cache that holds blocks, has been
\* handed to getNewState
C16_Witness ==
    /\ pc = "gns_read"
    /\ gns.caller = "trackBlock"
    /\ blocks # <<>>
    /\ gns.latestBlock <= LastCachedBlock(blocks, lastProcessed)

NoDuplicate(blks) == \A i, j \in 1..Len(blks) : blks[i] = blks[j] => i = j

\* C17: after a head was appended by trackBlock and its pass succeeded, it is
\* lastCached; when trackBlock is then given the head that is lastCached
\* again and every call succeeds, lastCached is that head as before and the
\* cache holds no number twice
C17_IdempotentDelivery ==
    /\ (pass.ret = "trackBlock" /\ pass.outcome \in {"ok", "nothing"}) =>
           /\ pass.pre.blocks # <<>>
           /\ LastCachedBlock(blocks, lastProcessed) =
                  pass.pre.blocks[Len(pass.pre.blocks)]
           /\ NoDuplicate(blocks)
    /\ (gns.caller = "trackBlock" /\ gns.redelivery /\ gns.outcome = "ok") =>
           /\ LastCachedBlock(blocks, lastProcessed) = gns.latestBlock
           /\ NoDuplicate(blocks)

\* the head that is lastCached was delivered again and trackBlock returned
\* without an error, the head still cached
C17_Witness ==
    /\ gns.caller = "trackBlock"
    /\ gns.redelivery
    /\ gns.outcome = "ok"
    /\ blocks # <<>>
    /\ failures = 0

\* the distinct signatures given to add for the subject h
SignaturesAdded(h) == {p[2] : p \in {q \in addedSignatures : q[1] = h}}

\* C18: in each subject's set the signatures are pairwise distinct and there
\* are as many messages as distinct signatures were given to add for that
\* subject; an add whose signature the subject already holds changes nothing
\* in the bucket; an add changes no other subject's set
C18_QuorumDedup ==
    /\ [](\A h \in DOMAIN bucket :
             LET messages == bucket[h].messages
             IN  /\ \A i, j \in 1..Len(messages) :
                        messages[i].Signature = messages[j].Signature => i = j
                 /\ Len(messages) = Cardinality(SignaturesAdded(h))
                 /\ \A i \in 1..Len(messages) : messages[i].Hash = h)
    /\ [][(lastAdd' # NoMsg /\ <<lastAdd'.Hash, lastAdd'.Signature>> \in addedSignatures)
             => bucket' = bucket]_vars
    /\ [][lastAdd' # NoMsg =>
             \A h \in DOMAIN bucket :
                h # lastAdd'.Hash => (h \in DOMAIN bucket' /\ bucket'[h] = bucket[h])]_vars

\* the last add repeated a signature its subject held already, in a bucket
\* with two subjects
C18_Witness ==
    /\ lastAdd # NoMsg
    /\ DOMAIN bucket = Hashes
    /\ LET messages == bucket[lastAdd.Hash].messages
       IN  /\ Len(messages) >= 2
           /\ messages[Len(messages)] # lastAdd

\* C19: getQuorumMessages returns all the messages of one subject whose
\* number of distinct signatures satisfies quorum, each of them with that
\* subject's hash, and nil exactly when no subject satisfies it; no set
\* ever loses a message, so a subject that reached a threshold keeps it
C19_QuorumRetrieval ==
    /\ [](quorumResult.called =>
             LET messages == quorumResult.messages
                 hits == {h \in DOMAIN bucket :
                             Cardinality(SignaturesAdded(h)) \in quorumResult.quorum}
             IN  /\ messages = Nil <=> hits = {}
                 /\ messages # Nil =>
                        \E h \in hits :
                           /\ \A i \in 1..Len(messages) : messages[i].Hash = h
                           /\ {messages[i].Signature : i \in 1..Len(messages)} =
                                  SignaturesAdded(h)
                           /\ Len(messages) = Cardinality(SignaturesAdded(h)))
    /\ [][\A h \in DOMAIN bucket :
             /\ h \in DOMAIN bucket'
             /\ Len(bucket'[h].messages) >= Len(bucket[h].messages)]_vars

\* messages were returned while two subjects satisfied quorum and a third
\* number of messages did not
C19_Witness ==
    /\ quorumResult.called
    /\ quorumResult.messages # Nil
    /\ \A h \in Hashes :
          /\ h \in DOMAIN bucket
          /\ Len(bucket[h].messages) \in quorumResult.quorum
    /\ quorumResult.quorum # 0..MaxSignatures

\* block n is cached and NumBlockConfirmations blocks are cached above it
Pending(n) ==
    /\ n \in Range(blocks)
    /\ LastCachedBlock(blocks, lastProcessed) - n >= config.NumBlockConfirmations

\* the last head of the modelled chain has been handled
ChainEnd == pc = "track" /\ LastCachedBlock(blocks, lastProcessed) = MaxBlock

\* block n was cached with NumBlockConfirmations blocks above it when the
\* running / last pass started
PendingBefore(n) ==
    /\ n \in Range(pass.pre.blocks)
    /\ LastCachedBlock(pass.pre.blocks, pass.pre.lastProcessed) - n
           >= config.NumBlockConfirmations

====
